---- MODULE Spec2Model ----
(***************************************************************************)
(* Citation preprocessing of graph_building: normalize_citation,           *)
(* is_garbage_citation, extract_law_from_citations,                        *)
(* enrich_article_only_citations and the row loop of process_csv           *)
(* (src/preprocess_citations.py), and categorize_citation                  *)
(* (src/analyze_unparseable.py).                                           *)
(*                                                                         *)
(* Python strings are TLA+ strings over ASCII; the character at index i    *)
(* (1-based) is SubSeq(s, i, i).  Python values that need not be strings   *)
(* (a citation read from JSON) are tagged records, see PyStr; None stands  *)
(* for the values that are not strings.                                    *)
(***************************************************************************)
EXTENDS Integers, Sequences, FiniteSets, TLC

VARIABLES
    \* ---- process_csv (Spec) ----
    pc,                  \* "running" | "aborted" (an exception left process_csv)
    stats,               \* the stats dict
    consumed,            \* input rows read so far, in order
    written,             \* rows given to writer.writerow, in order
    transformations,     \* lines written to logs/citation_transformations.txt
    failures,            \* the failures list (short fragments)
    removed_examples,    \* first digit-only examples
    garbage_examples,    \* first garbage examples
    enriched_examples,   \* first enrichment examples
    normalized_articles, \* the kept citations of the row being processed
    \* ---- enrich_article_only_citations applied to a record (SpecEnrich) ----
    encIn,               \* the list passed to the last call
    encOut,              \* what the last call returned
    encApplied,          \* calls made so far
    \* ---- the text functions applied to one citation (SpecText) ----
    text,                \* the current citation text
    prevText,            \* the argument of the last normalize_citation call
    normOut,             \* what the last normalize_citation call returned
    applied,             \* normalize_citation calls made so far
    \* ---- the classifiers and the extractor applied to one citation (SpecClassify) ----
    cit,                 \* the citation text given to the functions
    category,            \* what categorize_citation returned
    garbage,             \* what is_garbage_citation returned
    lawRef,              \* what extract_law_from_citations([cit]) returned
    called               \* the functions applied so far

csvVars == <<pc, stats, consumed, written, transformations, failures,
             removed_examples, garbage_examples, enriched_examples,
             normalized_articles>>
encVars == <<encIn, encOut, encApplied>>
textVars == <<text, prevText, normOut, applied>>
clsVars == <<cit, category, garbage, lawRef, called>>
vars == <<pc, stats, consumed, written, transformations, failures,
          removed_examples, garbage_examples, enriched_examples,
          normalized_articles,
          encIn, encOut, encApplied, text, prevText, normOut, applied,
          cit, category, garbage, lawRef, called>>

----------------------------------------------------------------------------
(* Bounds of the model *)

\* longest generated citation text of SpecText
MaxTextLen == 5
\* normalize_citation / enrich calls in a row on one value
MaxApply == 2
\* longest record of SpecEnrich
MaxCit == 3
\* rows read by one run of process_csv
MaxRows == 2
\* tokens a generated citation of SpecClassify is made of
MaxTok == 3

----------------------------------------------------------------------------
(* Python values *)

PyStr(s) == [t |-> "str", v |-> s]
PyNone == [t |-> "None", v |-> ""]

\* isinstance(x, str)
IsStr(x) == x.t = "str"
\* bool(x) for the values above: None and "" are falsy
Truthy(x) == x.t = "str" /\ x.v # ""

----------------------------------------------------------------------------
(* Characters and strings *)

UpperStr == "ABCDEFGHIJKLMNOPQRSTUVWXYZ"
LowerStr == "abcdefghijklmnopqrstuvwxyz"
DigitStr == "0123456789"

CharsOf(s) == {SubSeq(s, i, i) : i \in 1..Len(s)}

\* [A-Z] (the non-ASCII members of the source's classes are outside the alphabet)
Upper == CharsOf(UpperStr)
\* [a-z]
Lower == CharsOf(LowerStr)
\* \d
Digit == CharsOf(DigitStr)
\* [A-Za-z]
Letter == Upper \cup Lower
\* \w
WordChar == Letter \cup Digit \cup {"_"}
\* \s
Space == {" "}

\* s[i-1] in Python terms; "" outside the string
Ch(s, i) == IF i >= 1 /\ i <= Len(s) THEN SubSeq(s, i, i) ELSE ""

\* s[i-1:] in Python terms
From(s, i) == SubSeq(s, i, Len(s))

LowerChar ==
    [c \in Upper |->
        LET i == CHOOSE k \in 1..Len(UpperStr) : SubSeq(UpperStr, k, k) = c
        IN  SubSeq(LowerStr, i, i)]
UpperChar ==
    [c \in Lower |->
        LET i == CHOOSE k \in 1..Len(LowerStr) : SubSeq(LowerStr, k, k) = c
        IN  SubSeq(UpperStr, i, i)]

RECURSIVE lower(_)
\* str.lower()
lower(s) ==
    IF s = "" THEN ""
    ELSE LET c == SubSeq(s, 1, 1)
         IN  (IF c \in Upper THEN LowerChar[c] ELSE c) \o lower(Tail(s))

RECURSIVE upper(_)
\* str.upper()
upper(s) ==
    IF s = "" THEN ""
    ELSE LET c == SubSeq(s, 1, 1)
         IN  (IF c \in Lower THEN UpperChar[c] ELSE c) \o upper(Tail(s))

\* sub in s
Contains(s, sub) ==
    \E i \in 1..(Len(s) - Len(sub) + 1) : SubSeq(s, i, i + Len(sub) - 1) = sub

\* s.startswith(p)
StartsWith(s, p) == Len(p) <= Len(s) /\ SubSeq(s, 1, Len(p)) = p

\* s.endswith(p)
EndsWith(s, p) == Len(p) <= Len(s) /\ SubSeq(s, Len(s) - Len(p) + 1, Len(s)) = p

RECURSIVE RunEnd(_, _, _)
\* the index after the longest run of characters of class C that starts at i
RunEnd(s, i, C) == IF Ch(s, i) \in C THEN RunEnd(s, i + 1, C) ELSE i

RECURSIVE lstrip(_)
lstrip(s) == IF Ch(s, 1) \in Space THEN lstrip(Tail(s)) ELSE s

RECURSIVE rstrip(_)
rstrip(s) ==
    IF Ch(s, Len(s)) \in Space THEN rstrip(SubSeq(s, 1, Len(s) - 1)) ELSE s

\* str.strip()
strip(s) == rstrip(lstrip(s))

RECURSIVE remove(_, _)
\* s.replace(c, '') for a one-character c
remove(s, c) ==
    IF s = "" THEN ""
    ELSE (IF SubSeq(s, 1, 1) = c THEN "" ELSE SubSeq(s, 1, 1)) \o remove(Tail(s), c)

\* str.isdigit()
isdigit(s) == s # "" /\ \A i \in 1..Len(s) : SubSeq(s, i, i) \in Digit

\* \b between s[i-2] and s[i-1] in Python terms (before index i, 1-based)
WordBoundary(s, i) == (Ch(s, i - 1) \in WordChar) # (Ch(s, i) \in WordChar)

----------------------------------------------------------------------------
(* normalize_citation *)

NoMatch == [end |-> 0, repl |-> ""]

\* (\d+)\s+a([A-Z][A-Za-z]{1,})\b  ->  \1 a \2   matched at index i
MatchDigitA(s, i) ==
    LET d == RunEnd(s, i, Digit)
        w == RunEnd(s, d, Space)
        l == RunEnd(s, w + 2, Letter)
    IN  IF /\ d > i
           /\ w > d
           /\ Ch(s, w) = "a"
           /\ Ch(s, w + 1) \in Upper
           /\ l > w + 2
           /\ WordBoundary(s, l)
        THEN [end |-> l,
              repl |-> SubSeq(s, i, d - 1) \o " a " \o SubSeq(s, w + 1, l - 1)]
        ELSE NoMatch

\* (\s)a([A-Z][A-Za-z]{1,})\b  ->  \1a \2   matched at index i
MatchSpaceA(s, i) ==
    LET l == RunEnd(s, i + 3, Letter)
    IN  IF /\ Ch(s, i) \in Space
           /\ Ch(s, i + 1) = "a"
           /\ Ch(s, i + 2) \in Upper
           /\ l > i + 3
           /\ WordBoundary(s, l)
        THEN [end |-> l,
              repl |-> Ch(s, i) \o "a " \o SubSeq(s, i + 2, l - 1)]
        ELSE NoMatch

\* \b([Aa]rt)\.?(\d+)([A-Z][A-Za-z]{1,})\b  ->  \1. \2 \3   matched at index i
MatchArtGlued(s, i) ==
    LET n == IF Ch(s, i + 3) = "." THEN i + 4 ELSE i + 3
        d == RunEnd(s, n, Digit)
        l == RunEnd(s, d + 1, Letter)
    IN  IF /\ WordBoundary(s, i)
           /\ Ch(s, i) \in {"A", "a"}
           /\ Ch(s, i + 1) = "r"
           /\ Ch(s, i + 2) = "t"
           /\ d > n
           /\ Ch(s, d) \in Upper
           /\ l > d + 1
           /\ WordBoundary(s, l)
        THEN [end |-> l,
              repl |-> SubSeq(s, i, i + 2) \o ". " \o SubSeq(s, n, d - 1)
                         \o " " \o SubSeq(s, d, l - 1)]
        ELSE NoMatch

RECURSIVE FixDigitAFrom(_, _)
\* line 24, re.sub: leftmost non-overlapping matches, scanning from index i
FixDigitAFrom(s, i) ==
    IF i > Len(s) THEN ""
    ELSE LET m == MatchDigitA(s, i)
         IN  IF m.end > 0
             THEN m.repl \o FixDigitAFrom(s, m.end)
             ELSE SubSeq(s, i, i) \o FixDigitAFrom(s, i + 1)

RECURSIVE FixSpaceAFrom(_, _)
\* line 27, re.sub: leftmost non-overlapping matches, scanning from index i
FixSpaceAFrom(s, i) ==
    IF i > Len(s) THEN ""
    ELSE LET m == MatchSpaceA(s, i)
         IN  IF m.end > 0
             THEN m.repl \o FixSpaceAFrom(s, m.end)
             ELSE SubSeq(s, i, i) \o FixSpaceAFrom(s, i + 1)

RECURSIVE FixArtGluedFrom(_, _)
\* line 31, re.sub: leftmost non-overlapping matches, scanning from index i
FixArtGluedFrom(s, i) ==
    IF i > Len(s) THEN ""
    ELSE LET m == MatchArtGlued(s, i)
         IN  IF m.end > 0
             THEN m.repl \o FixArtGluedFrom(s, m.end)
             ELSE SubSeq(s, i, i) \o FixArtGluedFrom(s, i + 1)

\* line 24
FixDigitA(s) == FixDigitAFrom(s, 1)
\* line 27
FixSpaceA(s) == FixSpaceAFrom(s, 1)
\* line 31
FixArtGlued(s) == FixArtGluedFrom(s, 1)

RECURSIVE TrailingDigitsStart(_, _)
\* the index where the run of digits that ends the string starts (Len+1: none)
TrailingDigitsStart(s, i) ==
    IF i >= 1 /\ Ch(s, i) \in Digit THEN TrailingDigitsStart(s, i - 1) ELSE i + 1

\* line 35: ([a-z])\d+$  ->  \1
StripFootnote(s) ==
    LET j == TrailingDigitsStart(s, Len(s))
    IN  IF j <= Len(s) /\ Ch(s, j - 1) \in Lower
        THEN SubSeq(s, 1, j - 1)
        ELSE s

\* line 39
IsDigitOnly(s) == isdigit(remove(remove(strip(s), " "), "."))

\* the rewrites of lines 24-35, in order, each applied once
NormalizeText(s) == StripFootnote(FixArtGlued(FixSpaceA(FixDigitA(s))))

normalize_citation(citation) ==
    IF ~Truthy(citation) \/ ~IsStr(citation)
    THEN [citation |-> citation, changed |-> FALSE, is_digit_only |-> FALSE]
    ELSE LET n == NormalizeText(citation.v)
         IN  [citation |-> PyStr(n),
              changed |-> n # citation.v,
              is_digit_only |-> IsDigitOnly(n)]

----------------------------------------------------------------------------
(* is_garbage_citation *)

\* any(s.startswith(p) for p in ps) / endswith / substring, over a list
StartsWithAny(s, ps) == \E k \in 1..Len(ps) : StartsWith(s, ps[k])
EndsWithAny(s, ps) == \E k \in 1..Len(ps) : EndsWith(s, ps[k])
ContainsAny(s, ps) == \E k \in 1..Len(ps) : Contains(s, ps[k])

\* line 55: ^(Abs\.|Al\.|al\.|lit\.|let\.|Lit\.|Let\.)\s
fragment_markers == <<"Abs.", "Al.", "al.", "lit.", "let.", "Lit.", "Let.">>
IsFragmentMarker(s) ==
    \E k \in 1..Len(fragment_markers) :
        /\ StartsWith(s, fragment_markers[k])
        /\ Ch(s, Len(fragment_markers[k]) + 1) \in Space

\* lines 62-67 (the entries with non-ASCII letters cannot occur in ASCII text)
month_patterns ==
    <<"januar", "februar", "april", "mai", "juni", "juli", "august",
      "september", "oktober", "november", "dezember", "janvier",
      "mars", "avril", "mai", "juin", "juillet", "septembre",
      "octobre", "novembre", "gennaio", "febbraio", "marzo",
      "aprile", "maggio", "giugno", "luglio", "agosto", "settembre",
      "ottobre", "novembre", "dicembre">>

\* \b[Aa]rt\.?\s*\d   matched at index i
MatchArticle(s, i) ==
    LET n == IF Ch(s, i + 3) = "." THEN i + 4 ELSE i + 3
        w == RunEnd(s, n, Space)
    IN  /\ WordBoundary(s, i)
        /\ Ch(s, i) \in {"A", "a"}
        /\ Ch(s, i + 1) = "r"
        /\ Ch(s, i + 2) = "t"
        /\ Ch(s, w) \in Digit

\* lines 69, 93: re.search(r'\b[Aa]rt\.?\s*\d', citation)
HasArticle(s) == \E i \in 1..Len(s) : MatchArticle(s, i)

\* line 74: ^\d+\s*(ff?\.?)$
IsPageRef(s) ==
    LET d == RunEnd(s, 1, Digit)
        w == RunEnd(s, d, Space)
    IN  /\ d > 1
        /\ Ch(s, w) = "f"
        /\ From(s, w + 1) \in {"", "f", ".", "f."}

\* lines 78-79
incomplete_endings ==
    <<"de la", "du", "des", "de l'", "della", "del", "ist (", "sind (",
      "sowie ", "et art", "e art">>

\* line 84
proposal_words == <<"proposition", "motion", "postulat", "initiative", "anfrage">>

\* line 89: (Abs|abs|Art|art)\s*$
EndsWithBareMarker(s) == EndsWithAny(rstrip(s), <<"Abs", "abs", "Art", "art">>)

NotGarbage == [is_garbage |-> FALSE, reason |-> "None"]
Garbage(r) == [is_garbage |-> TRUE, reason |-> r]

is_garbage_citation(citation) ==
    IF ~Truthy(citation) \/ ~IsStr(citation) THEN NotGarbage
    ELSE LET s == citation.v
             citation_lower == lower(s)
         IN  CASE IsFragmentMarker(s) -> Garbage("fragment_marker")
               [] ContainsAny(citation_lower, month_patterns) /\ ~HasArticle(s) ->
                      Garbage("date_reference")
               [] IsPageRef(s) -> Garbage("page_reference")
               [] EndsWithAny(s, incomplete_endings) -> Garbage("incomplete_fragment")
               [] ContainsAny(citation_lower, proposal_words) ->
                      Garbage("legislative_proposal")
               [] EndsWithBareMarker(s) -> Garbage("incomplete_fragment")
               [] Len(s) > 50 /\ ~HasArticle(s) -> Garbage("non_citation_text")
               [] OTHER -> NotGarbage

----------------------------------------------------------------------------
(* categorize_citation (src/analyze_unparseable.py) *)

\* line 22 ('abroge' with an accent is outside the alphabet)
repealed_words == <<"aufgehoben", "abrogato">>
\* line 26
fragment_prefixes == <<"Abs. ", "Al. ", "al. ", "lit. ", "let. ", "Lit. ", "Let. ">>
\* lines 30-33, matched case-sensitively
category_months ==
    <<"Januar", "Februar", "April", "Mai", "Juni", "Juli", "August",
      "September", "Oktober", "November", "Dezember", "janvier", "mars",
      "avril", "mai", "juin", "juillet", "septembre", "octobre", "novembre">>
\* line 37
page_ref_endings == <<"ff.", "f.", "ff", "f">>
\* line 41
category_incomplete_endings ==
    <<"de la", "du", "des", "de l'", "della", "del", "ist (", "sind (">>
\* line 45
category_proposal_words == <<"proposition", "motion", "postulat", "initiative">>
\* line 49
article_prefixes == <<"Art. ", "art. ", "Art ", "art ">>
\* lines 55-56
non_swiss_words ==
    <<"reglement", "statut", "ordonnance communale", "feuerwehrreglement">>

\* line 51
CategoryShortLen == 30

HasDigit(s) == \E i \in 1..Len(s) : SubSeq(s, i, i) \in Digit

\* "RAISE": citation.lower() raised AttributeError (not a string)
categorize_citation(citation) ==
    IF ~IsStr(citation) THEN "RAISE"
    ELSE LET s == citation.v
             citation_lower == lower(s)
         IN  CASE ContainsAny(citation_lower, repealed_words) -> "GARBAGE_REPEALED"
               [] StartsWithAny(s, fragment_prefixes) -> "GARBAGE_FRAGMENT"
               [] ContainsAny(s, category_months) -> "GARBAGE_DATE"
               [] EndsWithAny(s, page_ref_endings) /\ HasDigit(s) -> "GARBAGE_PAGE_REF"
               [] EndsWithAny(s, category_incomplete_endings) -> "GARBAGE_INCOMPLETE"
               [] ContainsAny(citation_lower, category_proposal_words) ->
                      "GARBAGE_PROPOSAL"
               [] StartsWithAny(s, article_prefixes) /\ Len(s) < CategoryShortLen ->
                      "RESCUABLE_ARTICLE_ONLY"
               [] ContainsAny(citation_lower, non_swiss_words) -> "NON_SWISS_LAW"
               [] OTHER -> "UNKNOWN"

IsGarbageLabel(label) == StartsWith(label, "GARBAGE_")

----------------------------------------------------------------------------
(* Law references: extract_law_from_citations, enrich_article_only_citations *)

\* None
NoLaw == ""

RECURSIVE DottedEnd(_, _)
\* \d+(?:\.\d+)*\b from index p: the index after the match, 0 when none
DottedEnd(s, p) ==
    LET d == RunEnd(s, p, Digit)
        more == IF Ch(s, d) = "." /\ Ch(s, d + 1) \in Digit
                THEN DottedEnd(s, d + 1)
                ELSE 0
    IN  IF d = p THEN 0
        ELSE IF more > 0 THEN more
        ELSE IF WordBoundary(s, d) THEN d
        ELSE 0

\* \b(?:rs|sr)\s*(\d+(?:\.\d+)*)\b matched at index i: group 1, "" when none
MatchRsAt(s, i) ==
    LET w == RunEnd(s, i + 2, Space)
        e == DottedEnd(s, w)
    IN  IF /\ WordBoundary(s, i)
           /\ SubSeq(s, i, i + 1) \in {"rs", "sr"}
           /\ e > 0
        THEN SubSeq(s, w, e - 1)
        ELSE ""

\* group 1 of re.search over citation_lower, "" when there is no match
SearchRs(s) ==
    IF \E i \in 1..(Len(s) - 1) : MatchRsAt(s, i) # ""
    THEN MatchRsAt(s, CHOOSE i \in 1..(Len(s) - 1) :
                          /\ MatchRsAt(s, i) # ""
                          /\ \A j \in 1..(i - 1) : MatchRsAt(s, j) = "")
    ELSE ""

\* lines 117-121 and 147-151: the RS/SR number of a citation, NoLaw when none
RsReference(citation_lower) ==
    IF Contains(citation_lower, "rs ") \/ Contains(citation_lower, "sr ")
    THEN LET g == SearchRs(citation_lower)
         IN  IF g # "" THEN "RS " \o g ELSE NoLaw
    ELSE NoLaw

\* re.search(r'\b' + re.escape(abbrev) + r'\b', citation_lower)
HasWord(s, abbrev) ==
    \E i \in 1..(Len(s) - Len(abbrev) + 1) :
        /\ SubSeq(s, i, i + Len(abbrev) - 1) = abbrev
        /\ WordBoundary(s, i)
        /\ WordBoundary(s, i + Len(abbrev))

\* the first abbreviation of the list found as a whole word, upper-cased
FirstAbbrev(s, abbrevs) ==
    IF \E k \in 1..Len(abbrevs) : HasWord(s, abbrevs[k])
    THEN upper(abbrevs[CHOOSE k \in 1..Len(abbrevs) :
                           /\ HasWord(s, abbrevs[k])
                           /\ \A j \in 1..(k - 1) : ~HasWord(s, abbrevs[j])])
    ELSE NoLaw

\* lines 105-110
extract_abbrevs ==
    <<"stgb", "zgb", "or", "bv", "schkg", "zpo", "stpo",
      "uvg", "ahvg", "kvg", "bvg", "avig", "urg", "dsg",
      "usg", "mwstg", "dbg", "vwvg", "pa", "cp", "cc",
      "cst", "cste", "but", "cost">>

\* lines 154-159
swiss_law_abbrevs ==
    <<"stgb", "zgb", "or", "bv", "schkg", "zpo", "stpo",
      "uvg", "ahvg", "kvg", "bvg", "avig", "urg", "dsg",
      "usg", "mwstg", "dbg", "vwvg", "pa", "cp", "cc",
      "cst", "cste", "but", "cost", "bgg", "svg", "emrk", "cedh">>

\* lines 180-185
swiss_law_indicators ==
    <<"stgb", "zgb", "or", "bv", "schkg", "zpo", "stpo",
      "uvg", "ahvg", "kvg", "bvg", "avig", "urg", "dsg",
      "usg", "mwstg", "dbg", "vwvg", "pa", "cp", "cc",
      "bgg", "svg", "emrk", "cedh", "cost", "cst", "cste", "but">>

\* lines 114-128: the law reference of one citation text
ExtractLaw(s) ==
    LET citation_lower == lower(s)
        rs == RsReference(citation_lower)
    IN  IF rs # NoLaw THEN rs ELSE FirstAbbrev(citation_lower, extract_abbrevs)

RECURSIVE ExtractFrom(_, _)
ExtractFrom(citations, k) ==
    IF k > Len(citations) THEN [raised |-> FALSE, law |-> NoLaw]
    ELSE IF ~IsStr(citations[k]) THEN [raised |-> TRUE, law |-> NoLaw]
    ELSE LET law == ExtractLaw(citations[k].v)
         IN  IF law # NoLaw THEN [raised |-> FALSE, law |-> law]
             ELSE ExtractFrom(citations, k + 1)

\* line 130
NoLawFound == [raised |-> FALSE, law |-> NoLaw]

\* raised: citation.lower() raised AttributeError before a law was found
extract_law_from_citations(citations) == ExtractFrom(citations, 1)

\* lines 143-163: what one citation adds to all_laws (NoLaw: nothing)
LawOfCitation(s) ==
    LET citation_lower == lower(s)
        rs == RsReference(citation_lower)
    IN  IF rs # NoLaw THEN rs ELSE FirstAbbrev(citation_lower, swiss_law_abbrevs)

\* line 166: set(all_laws)
unique_laws(citations) ==
    {LawOfCitation(citations[k].v) : k \in 1..Len(citations)} \ {NoLaw}

\* line 193: \b[A-Z]{2,}\b
HasUppercaseAbbrev(s) ==
    \E i \in 1..Len(s) :
        LET u == RunEnd(s, i, Upper)
        IN  WordBoundary(s, i) /\ u >= i + 2 /\ WordBoundary(s, u)

\* line 194: \b[A-Z][a-z]*[A-Z]
HasMixedCaseAbbrev(s) ==
    \E i \in 1..Len(s) :
        /\ WordBoundary(s, i)
        /\ Ch(s, i) \in Upper
        /\ Ch(s, RunEnd(s, i + 1, Lower)) \in Upper

\* line 198
ArticleOnlyLen == 25

\* the article-only test without its law-identifier checks
IsArticleOnly_prefix(s) ==
    StartsWith(strip(lower(s)), "art") /\ Len(s) < ArticleOnlyLen

\* lines 177-203
IsArticleOnly(s) ==
    LET citation_lower == strip(lower(s))
        has_law_abbrev == ContainsAny(citation_lower, swiss_law_indicators)
        has_rs_sr == \/ Contains(citation_lower, "rs ")
                     \/ Contains(citation_lower, "sr ")
                     \/ Contains(citation_lower, "rs.")
                     \/ Contains(citation_lower, "sr.")
    IN  /\ StartsWith(citation_lower, "art")
        /\ Len(s) < ArticleOnlyLen
        /\ ~has_law_abbrev
        /\ ~has_rs_sr
        /\ ~HasUppercaseAbbrev(s)
        /\ ~HasMixedCaseAbbrev(s)

\* the law reference glued to the citation without the separating space
EnrichedCitation_glued(s, law_ref) == s \o law_ref

\* line 207
EnrichedCitation(s, law_ref) == s \o " " \o law_ref

\* enrichment as soon as some law is found, however many there are
MayEnrich_any(laws) == Cardinality(laws) >= 1

\* line 167: the guard under which the record is enriched
MayEnrich(laws) == Cardinality(laws) = 1

\* lines 175-211
EnrichEach(citations, law_ref) ==
    [k \in 1..Len(citations) |->
        IF IsArticleOnly(citations[k].v)
        THEN PyStr(EnrichedCitation(citations[k].v, law_ref))
        ELSE citations[k]]

CountArticleOnly(citations) ==
    Cardinality({k \in 1..Len(citations) : IsArticleOnly(citations[k].v)})

\* raised: citation.lower() raised AttributeError (a citation is not a string)
enrich_article_only_citations(citations) ==
    IF \E k \in 1..Len(citations) : ~IsStr(citations[k])
    THEN [raised |-> TRUE, citations |-> <<>>, count |-> 0]
    ELSE LET laws == unique_laws(citations)
         IN  IF ~MayEnrich(laws)
             THEN [raised |-> FALSE, citations |-> citations, count |-> 0]
             ELSE LET law_ref == CHOOSE l \in laws : TRUE
                  IN  [raised |-> FALSE,
                       citations |-> EnrichEach(citations, law_ref),
                       count |-> CountArticleOnly(citations)]

----------------------------------------------------------------------------
(* process_csv: rows and their analysis field *)

\* lines 296, 304, 358: examples kept for the report
MaxExamples == 20
\* line 330
ShortFragmentLen == 15

\* the value under a key of the analysis object
Absent == [kind |-> "absent", items |-> <<>>]
JList(items) == [kind |-> "list", items |-> items]
\* a value that is not a list: truthy ("x", 5, {...}) or falsy (null, 0, "")
JTruthy == [kind |-> "truthy", items |-> <<>>]
JFalsy == [kind |-> "falsy", items |-> <<>>]

FieldTruthy(f) == f.kind = "truthy" \/ (f.kind = "list" /\ f.items # <<>>)

\* The analysis field of a row.
\*   kind "nokey": the row has no 'analysis' key (KeyError);
\*        "None": the row is short, csv.DictReader filled the field with None;
\*        "invalid": text that is not JSON;
\*        "null", "number", "string", "list", "object": the JSON value it holds.
\*   holds: for a JSON string the keys it contains as substrings, for a JSON
\*          list the keys it has as elements;
\*   fmt: "file" as written in the input, "dumps" as json.dumps writes it.
AnalysisOf(kind, holds, a, j, d) ==
    [kind |-> kind, holds |-> holds, articles |-> a, jurisprudence |-> j,
     doctrine |-> d, fmt |-> "file"]

Scalar(kind) == AnalysisOf(kind, {}, Absent, Absent, Absent)
Object(a, j, d) == AnalysisOf("object", {}, a, j, d)
ArticlesRow(items) == Object(JList(items), Absent, Absent)

\* key in analysis, for the JSON values that support it
Has(analysis, key) ==
    IF analysis.kind = "object"
    THEN CASE key = "articles de loi" -> analysis.articles.kind # "absent"
           [] key = "jurisprudence" -> analysis.jurisprudence.kind # "absent"
           [] OTHER -> analysis.doctrine.kind # "absent"
    ELSE key \in analysis.holds

\* line 264: what json.loads(row['analysis']) does
LoadsOutcome(analysis) ==
    CASE analysis.kind = "nokey" -> "KeyError"
      [] analysis.kind = "invalid" -> "JSONDecodeError"
      [] analysis.kind = "None" -> "TypeError"
      [] OTHER -> "ok"

\* lines 270-275 raise TypeError: `in` on null or a number, or a key looked
\* up in a JSON string or list that holds it
TestsRaise(analysis) ==
    \/ analysis.kind \in {"null", "number"}
    \/ analysis.kind \in {"string", "list"} /\ analysis.holds # {}

\* line 270, when it does not raise
NoArticles(analysis) ==
    ~Has(analysis, "articles de loi") \/ ~FieldTruthy(analysis.articles)

RowOf(uuid, analysis) ==
    [uuid |-> uuid, analysis |-> analysis, part_content |-> "ctx"]

\* lines 252-253: part_content is not among the writer's fieldnames
Written(row, analysis) == [uuid |-> row.uuid, analysis |-> analysis]

\* a long record: one law and eleven article-only citations
BulkArticles ==
    <<PyStr("ZGB Art. 2"), PyStr("art. 1"), PyStr("art. 2"), PyStr("art. 3"),
      PyStr("art. 4"), PyStr("art. 5"), PyStr("art. 6"), PyStr("art. 7"),
      PyStr("art. 8"), PyStr("art. 9"), PyStr("art. 10"), PyStr("art. 11")>>

\* the rows an input file is made of
Rows ==
    {RowOf("nokey", Scalar("nokey")),
     RowOf("short", Scalar("None")),
     RowOf("invalid", Scalar("invalid")),
     RowOf("null", Scalar("null")),
     RowOf("number", Scalar("number")),
     RowOf("string", Scalar("string")),
     RowOf("list", Scalar("list")),
     RowOf("listkey", AnalysisOf("list", {"jurisprudence"}, Absent, Absent, Absent)),
     RowOf("juris", Object(Absent, JTruthy, JFalsy)),
     RowOf("empty", Object(JList(<<>>), Absent, JTruthy)),
     RowOf("notlist", Object(JTruthy, Absent, Absent)),
     RowOf("rs", Object(JList(<<PyStr("art. 128"), PyStr("Loi cantonale, RS 131.211")>>),
                        JTruthy, Absent)),
     RowOf("two", ArticlesRow(<<PyStr("art. 5"), PyStr("StGB Art. 10"),
                                PyStr("ZGB Art. 2")>>)),
     RowOf("mixed", ArticlesRow(<<PyStr("43 aCP"), PyStr("125"), PyStr("207ff."),
                                  PyStr("Art.6VwVG"), PyStr("Abs. 3"), PyStr("")>>)),
     RowOf("repealed", ArticlesRow(<<PyStr("Art. 5 aufgehoben")>>)),
     RowOf("none", ArticlesRow(<<PyStr("art. 5 ZGB"), PyNone>>)),
     RowOf("bulk", ArticlesRow(BulkArticles))}

----------------------------------------------------------------------------
(* process_csv: the body of the row loop *)

\* the variables of process_csv as one value
State ==
    [stats |-> stats, transformations |-> transformations, failures |-> failures,
     removed_examples |-> removed_examples, garbage_examples |-> garbage_examples,
     enriched_examples |-> enriched_examples,
     normalized_articles |-> normalized_articles, raised |-> FALSE]

\* lines 296, 304: keep the first MaxExamples examples
KeepExample(examples, e) ==
    IF Len(examples) < MaxExamples THEN Append(examples, e) ELSE examples

\* lines 319-327
known_abbrevs ==
    <<"rs ", "sr ", "constitution", "verfassung", "costituzione",
      "cst.", "cste.", "cst", "cste", "but", "bv", "cost.", "cost",
      "stgb", "zgb", "or", "svg", "schkg", "zpo", "stpo",
      "uvg", "ahvg", "kvg", "bvg", "avig", "urg", "dsg",
      "usg", "mwstg", "dbg", "vesr", "fiskalg">>

\* lines 330-338
IsShortFragment(normalized) ==
    /\ Len(strip(normalized)) < ShortFragmentLen
    /\ ~ContainsAny(lower(normalized), known_abbrevs)
    /\ ~HasUppercaseAbbrev(normalized)
    /\ ~HasMixedCaseAbbrev(normalized)

\* lines 308-345: a citation that is kept
KeepCitation(st, row, citation, n) ==
    LET kept == [st EXCEPT !.normalized_articles = Append(@, n.citation),
                           !.stats.citations_kept = @ + 1]
        logged == IF n.changed
                  THEN [kept EXCEPT !.stats.citations_changed = @ + 1,
                                    !.transformations =
                                        Append(@, <<citation, n.citation, row.part_content>>)]
                  ELSE kept
    IN  IF ~IsStr(n.citation)
        THEN \* line 330: normalized.strip() raises AttributeError
             [logged EXCEPT !.raised = TRUE]
        ELSE IF IsShortFragment(n.citation.v)
        THEN [logged EXCEPT !.failures =
                  Append(@, [uuid |-> row.uuid, original |-> citation,
                             normalized |-> n.citation, reason |-> "short_fragment"])]
        ELSE logged

\* one citation of the row, a garbage citation dropped without being counted
CitationStep_uncounted(st, row, citation) ==
    LET counted == [st EXCEPT !.stats.citations_processed = @ + 1]
        n == normalize_citation(citation)
        g == is_garbage_citation(n.citation)
    IN  IF n.is_digit_only
        THEN [counted EXCEPT !.stats.citations_removed_digit_only = @ + 1,
                             !.removed_examples = KeepExample(@, citation)]
        ELSE IF g.is_garbage
        THEN [counted EXCEPT !.garbage_examples = KeepExample(@, <<citation, g.reason>>)]
        ELSE KeepCitation(counted, row, citation, n)

\* lines 289-345: one citation of the row
CitationStep(st, row, citation) ==
    LET counted == [st EXCEPT !.stats.citations_processed = @ + 1]
        n == normalize_citation(citation)
        g == is_garbage_citation(n.citation)
    IN  IF n.is_digit_only
        THEN [counted EXCEPT !.stats.citations_removed_digit_only = @ + 1,
                             !.removed_examples = KeepExample(@, citation)]
        ELSE IF g.is_garbage
        THEN [counted EXCEPT !.stats.citations_removed_garbage = @ + 1,
                             !.garbage_examples = KeepExample(@, <<citation, g.reason>>)]
        ELSE KeepCitation(counted, row, citation, n)

RECURSIVE CitationLoop(_, _, _, _)
\* lines 288-345: the loop over the row's citations, left when one raises
\* (the state after a citation is bound once, then handed to the next one)
CitationLoop(st, row, articles, k) ==
    IF k > Len(articles) \/ st.raised THEN st
    ELSE CHOOSE out \in {CitationLoop(next, row, articles, k + 1) :
                            next \in {CitationStep(st, row, articles[k])}} : TRUE

\* lines 354-360: one changed pair is logged, and kept as an example while
\* fewer than MaxExamples are kept
LogEnrichment(st, row, original, enriched) ==
    LET logged == [st EXCEPT !.transformations =
                       Append(@, <<original, enriched, row.part_content>>)]
    IN  IF Len(st.enriched_examples) < MaxExamples
        THEN [logged EXCEPT !.enriched_examples = Append(@, <<original, enriched>>)]
        ELSE logged

RECURSIVE LogEnrichments(_, _, _, _, _)
\* lines 353-361: the loop over zip(normalized_articles, enriched_articles)
LogEnrichments(st, row, orig, enriched, k) ==
    IF k > Len(orig) \/ k > Len(enriched) THEN st
    ELSE IF orig[k] = enriched[k] THEN LogEnrichments(st, row, orig, enriched, k + 1)
    ELSE CHOOSE out \in
           {IF /\ Len(st.enriched_examples) < MaxExamples
               /\ Len(next.enriched_examples) >= MaxExamples
            THEN next   \* line 361: break
            ELSE LogEnrichments(next, row, orig, enriched, k + 1) :
                next \in {LogEnrichment(st, row, orig[k], enriched[k])}} : TRUE

\* the list of the previous row carried into the next one
FreshArticles_carried(previous) == previous

\* line 287: normalized_articles = [] (the previous row's list is dropped)
FreshArticles(previous) == <<>>

\* lines 287-345
NormalizeRow(st, row) ==
    CitationLoop([st EXCEPT !.normalized_articles = FreshArticles(@)],
                 row, row.analysis.articles.items, 1)

\* lines 348-361, for a row whose citation loop returned
EnrichRow(st, row) ==
    LET e == enrich_article_only_citations(st.normalized_articles)
        counted == [st EXCEPT !.stats.citations_enriched = @ + e.count]
    IN  IF e.raised THEN [enriched |-> <<>>, st |-> [st EXCEPT !.raised = TRUE]]
        ELSE [enriched |-> e.citations,
              st |-> IF e.count > 0
                     THEN LogEnrichments(counted, row, st.normalized_articles,
                                         e.citations, 1)
                     ELSE counted]

\* the analysis rebuilt from the citation list alone
Dumps_articles_only(analysis, enriched) ==
    [analysis EXCEPT !.articles = JList(enriched), !.jurisprudence = Absent,
                     !.doctrine = Absent, !.fmt = "dumps"]

\* lines 364-365: json.dumps of the analysis with the new list
Dumps(analysis, enriched) ==
    [analysis EXCEPT !.articles = JList(enriched), !.fmt = "dumps"]

----------------------------------------------------------------------------
(* SpecEnrich: enrich_article_only_citations applied to a record *)

\* citation values a record is drawn from
CitationPool ==
    {PyStr("art. 5"), PyStr("art. 128"), PyStr("StGB Art. 10"),
     PyStr("ZGB Art. 2"), PyStr("Loi cantonale, RS 131.211"),
     PyStr("Art. 3 ZGB"), PyStr("art. 7 portant"), PyStr("Code civil"),
     PyStr("ZGB/StGB Art. 1"), PyStr("Art. 9 SVG"), PyStr("art.5"), PyNone}

RECURSIVE ListsUpTo(_, _)
ListsUpTo(S, n) ==
    IF n = 0 THEN {<<>>}
    ELSE LET P == ListsUpTo(S, n - 1)
         IN  P \cup {Append(l, c) : l \in P, c \in S}

Records == ListsUpTo(CitationPool, MaxCit)

NoEnc == [raised |-> FALSE, citations |-> <<>>, count |-> 0]

----------------------------------------------------------------------------
(* SpecText: the text functions applied to a citation text *)

TextAlphabet == {" ", "a", "C", "x", "3", "."}

TextSeeds ==
    {"43 aCP", "Art.6VwVG", "Loi sur l'administration3", "art5Vw3", "125",
     "3.14", "x aBauR"}

RECURSIVE StringsUpTo(_)
StringsUpTo(n) ==
    IF n = 0 THEN {""}
    ELSE LET P == StringsUpTo(n - 1)
         IN  P \cup {s \o c : s \in P, c \in TextAlphabet}

TextInputs == StringsUpTo(MaxTextLen) \cup TextSeeds

NoNorm == [citation |-> PyNone, changed |-> FALSE, is_digit_only |-> FALSE]

IdleCsv ==
    /\ pc = "idle"
    /\ stats = <<>>
    /\ consumed = <<>>
    /\ written = <<>>
    /\ transformations = <<>>
    /\ failures = <<>>
    /\ removed_examples = <<>>
    /\ garbage_examples = <<>>
    /\ enriched_examples = <<>>
    /\ normalized_articles = <<>>

IdleEnc ==
    /\ encIn = <<>>
    /\ encOut = NoEnc
    /\ encApplied = 0

IdleText ==
    /\ text = ""
    /\ prevText = ""
    /\ normOut = NoNorm
    /\ applied = 0

\* no citation is being classified
IdleCls ==
    /\ cit = ""
    /\ category = "UNKNOWN"
    /\ garbage = NotGarbage
    /\ lawRef = NoLawFound
    /\ called = {}

InitText ==
    /\ text \in TextInputs
    /\ prevText = ""
    /\ normOut = NoNorm
    /\ applied = 0
    /\ IdleCsv
    /\ IdleEnc
    /\ IdleCls

\* a caller normalizes the text it holds and keeps the result
NormalizeStep ==
    /\ applied < MaxApply
    /\ normOut' = normalize_citation(PyStr(text))
    /\ prevText' = text
    /\ text' = normOut'.citation.v
    /\ applied' = applied + 1
    /\ UNCHANGED <<csvVars, encVars, clsVars>>

NextText == NormalizeStep

SpecText == InitText /\ [][NextText]_vars

----------------------------------------------------------------------------
(* SpecClassify: categorize_citation, is_garbage_citation and               *)
(* extract_law_from_citations applied to one citation text                 *)

\* the pieces a generated citation is made of
Tokens == {"Art. ", "207", " ff.", " mai", " Reglement", "RS", "RS ", " ZGB"}

\* citations of the documentation and of the comments in the code
ClassifySeeds ==
    {"207ff.", "218f.", "43 a CP", "Abs. 3", "loi du 14 mai 1990",
     "Feuerwehrreglement der Gemeinde", "Art. 5 SVG", "SR 101",
     "art.5", "Art. 41 OR, RS 220"}

RECURSIVE TokenStrings(_)
TokenStrings(n) ==
    IF n = 0 THEN {""}
    ELSE LET P == TokenStrings(n - 1)
         IN  P \cup {s \o t : s \in P, t \in Tokens}

ClassifyInputs == TokenStrings(MaxTok) \cup ClassifySeeds

InitClassify ==
    /\ cit \in ClassifyInputs
    /\ category = "UNKNOWN"
    /\ garbage = NotGarbage
    /\ lawRef = NoLawFound
    /\ called = {}
    /\ IdleCsv
    /\ IdleEnc
    /\ IdleText

\* analyze_unparseable.py lines 72, 114: the citation is categorized
CategorizeStep ==
    /\ "categorize_citation" \notin called
    /\ category' = categorize_citation(PyStr(cit))
    /\ called' = called \cup {"categorize_citation"}
    /\ UNCHANGED <<cit, garbage, lawRef, csvVars, encVars, textVars>>

\* preprocess_citations.py line 301: the citation is tested for garbage
GarbageStep ==
    /\ "is_garbage_citation" \notin called
    /\ garbage' = is_garbage_citation(PyStr(cit))
    /\ called' = called \cup {"is_garbage_citation"}
    /\ UNCHANGED <<cit, category, lawRef, csvVars, encVars, textVars>>

\* the single-citation use of the extractor: extract_law_from_citations([cit])
ExtractStep ==
    /\ "extract_law_from_citations" \notin called
    /\ lawRef' = extract_law_from_citations(<<PyStr(cit)>>)
    /\ called' = called \cup {"extract_law_from_citations"}
    /\ UNCHANGED <<cit, category, garbage, csvVars, encVars, textVars>>

NextClassify == CategorizeStep \/ GarbageStep \/ ExtractStep

SpecClassify == InitClassify /\ [][NextClassify]_vars

----------------------------------------------------------------------------

InitEnrich ==
    /\ encIn \in Records
    /\ encOut = NoEnc
    /\ encApplied = 0
    /\ IdleCsv
    /\ IdleText
    /\ IdleCls

\* a caller passes the record (then what the last call returned) to
\* enrich_article_only_citations
EnrichStep ==
    /\ encApplied < MaxApply
    /\ encApplied > 0 => ~encOut.raised
    /\ LET arg == IF encApplied = 0 THEN encIn ELSE encOut.citations
       IN  /\ encIn' = arg
           /\ encOut' = enrich_article_only_citations(arg)
    /\ encApplied' = encApplied + 1
    /\ UNCHANGED <<csvVars, textVars, clsVars>>

NextEnrich == EnrichStep

SpecEnrich == InitEnrich /\ [][NextEnrich]_vars

----------------------------------------------------------------------------
(* Spec: process_csv reading an input file row by row *)

\* lines 224-235
InitStats ==
    [total_rows |-> 0, articles_de_loi_rows |-> 0,
     citations_processed |-> 0, citations_changed |-> 0,
     citations_removed_digit_only |-> 0, citations_removed_garbage |-> 0,
     citations_enriched |-> 0, citations_kept |-> 0,
     jurisprudence_kept |-> 0, doctrine_kept |-> 0]

\* lines 224-240
Init ==
    /\ pc = "running"
    /\ stats = InitStats
    /\ consumed = <<>>
    /\ written = <<>>
    /\ transformations = <<>>
    /\ failures = <<>>
    /\ removed_examples = <<>>
    /\ garbage_examples = <<>>
    /\ enriched_examples = <<>>
    /\ normalized_articles = <<>>
    /\ IdleEnc
    /\ IdleText
    /\ IdleCls

\* line 256: the reader yields another row
Reads(row) ==
    /\ pc = "running"
    /\ Len(consumed) < MaxRows
    /\ consumed' = Append(consumed, row)

\* the variables take the values of st
Becomes(st) ==
    /\ stats' = st.stats
    /\ transformations' = st.transformations
    /\ failures' = st.failures
    /\ removed_examples' = st.removed_examples
    /\ garbage_examples' = st.garbage_examples
    /\ enriched_examples' = st.enriched_examples
    /\ normalized_articles' = st.normalized_articles

\* line 257
Counted == [State EXCEPT !.stats.total_rows = @ + 1]

\* lines 265-267: json.loads raised JSONDecodeError or KeyError
RowUnparsable ==
    \E row \in Rows :
        /\ Reads(row)
        /\ LoadsOutcome(row.analysis) \in {"KeyError", "JSONDecodeError"}
        /\ Becomes(Counted)
        /\ written' = Append(written, Written(row, row.analysis))
        /\ UNCHANGED <<pc, encVars, textVars, clsVars>>

\* line 264: json.loads(None) raises TypeError, which is not caught
RowLoadsRaises ==
    \E row \in Rows :
        /\ Reads(row)
        /\ LoadsOutcome(row.analysis) = "TypeError"
        /\ Becomes(Counted)
        /\ pc' = "aborted"
        /\ UNCHANGED <<written, encVars, textVars, clsVars>>

\* lines 270-275: a test on the parsed value raises TypeError
RowTestsRaise ==
    \E row \in Rows :
        /\ Reads(row)
        /\ LoadsOutcome(row.analysis) = "ok"
        /\ TestsRaise(row.analysis)
        /\ Becomes(Counted)
        /\ pc' = "aborted"
        /\ UNCHANGED <<written, encVars, textVars, clsVars>>

\* lines 270-277: no non-empty 'articles de loi'
RowWithoutArticles ==
    \E row \in Rows :
        /\ Reads(row)
        /\ LoadsOutcome(row.analysis) = "ok"
        /\ ~TestsRaise(row.analysis)
        /\ NoArticles(row.analysis)
        /\ LET j == Has(row.analysis, "jurisprudence")
                        /\ FieldTruthy(row.analysis.jurisprudence)
               d == Has(row.analysis, "doctrine")
                        /\ FieldTruthy(row.analysis.doctrine)
           IN  Becomes([Counted EXCEPT
                   !.stats.jurisprudence_kept = IF j THEN @ + 1 ELSE @,
                   !.stats.doctrine_kept = IF d THEN @ + 1 ELSE @])
        /\ written' = Append(written, Written(row, row.analysis))
        /\ UNCHANGED <<pc, encVars, textVars, clsVars>>

\* the row reaches line 279
HasArticles(row) ==
    /\ LoadsOutcome(row.analysis) = "ok"
    /\ ~TestsRaise(row.analysis)
    /\ ~NoArticles(row.analysis)

\* line 279
Entered == [Counted EXCEPT !.stats.articles_de_loi_rows = @ + 1]

\* lines 283-285: 'articles de loi' is not a list
RowArticlesNotList ==
    \E row \in Rows :
        /\ Reads(row)
        /\ HasArticles(row)
        /\ row.analysis.articles.kind # "list"
        /\ Becomes(Entered)
        /\ written' = Append(written, Written(row, row.analysis))
        /\ UNCHANGED <<pc, encVars, textVars, clsVars>>

\* lines 287-367: the citations are normalized, filtered and enriched
RowProcessed ==
    \E row \in Rows :
        /\ Reads(row)
        /\ HasArticles(row)
        /\ row.analysis.articles.kind = "list"
        /\ \E n \in {NormalizeRow(Entered, row)} :
           \E e \in {EnrichRow(n, row)} :
               /\ ~n.raised
               /\ ~e.st.raised
               /\ Becomes(e.st)
               /\ written' = Append(written,
                                    Written(row, Dumps(row.analysis, e.enriched)))
        /\ UNCHANGED <<pc, encVars, textVars, clsVars>>

\* lines 330, 348: a citation that is not a string raises AttributeError
RowCitationRaises ==
    \E row \in Rows :
        /\ Reads(row)
        /\ HasArticles(row)
        /\ row.analysis.articles.kind = "list"
        /\ \E n \in {NormalizeRow(Entered, row)} :
               /\ n.raised
               /\ Becomes(n)
        /\ pc' = "aborted"
        /\ UNCHANGED <<written, encVars, textVars, clsVars>>

Next ==
    \/ RowUnparsable
    \/ RowLoadsRaises
    \/ RowTestsRaise
    \/ RowWithoutArticles
    \/ RowArticlesNotList
    \/ RowProcessed
    \/ RowCitationRaises

Spec == Init /\ [][Next]_vars

----------------------------------------------------------------------------
(* Properties of enrich_article_only_citations (SpecEnrich) *)

\* the last call returned (it did not raise)
EncReturned == encApplied > 0 /\ ~encOut.raised

\* the citations of the last call's argument the call rewrote
Rewritten == {k \in 1..Len(encIn) : encOut.citations[k] # encIn[k]}

\* C1: enrichment safety. A call rewrites a citation (or reports a positive
\* enrichment count) only if the law references collected over all citations
\* of the record form a set of exactly one element; with zero or with two or
\* more distinct references the list comes back unchanged with count 0.
C1_EnrichmentSafety ==
    EncReturned =>
        /\ (Rewritten # {} \/ encOut.count > 0) => Cardinality(unique_laws(encIn)) = 1
        /\ Cardinality(unique_laws(encIn)) # 1 =>
               encOut.citations = encIn /\ encOut.count = 0

\* a record with two distinct laws and an article-only sibling was left alone
C1_Witness ==
    /\ EncReturned
    /\ encIn = <<PyStr("art. 5"), PyStr("StGB Art. 10"), PyStr("ZGB Art. 2")>>
    /\ unique_laws(encIn) = {"STGB", "ZGB"}
    /\ IsArticleOnly(encIn[1].v)
    /\ encOut.citations = encIn
    /\ encOut.count = 0

\* C2: output shape. The returned list has the length and order of the input;
\* each element is the input citation at that position or that citation, one
\* space and the record's unique law reference.
C2_OutputShape ==
    EncReturned =>
        /\ Len(encOut.citations) = Len(encIn)
        /\ \A k \in 1..Len(encIn) :
               \/ encOut.citations[k] = encIn[k]
               \/ /\ Cardinality(unique_laws(encIn)) = 1
                  /\ \E law \in unique_laws(encIn) :
                         encOut.citations[k] = PyStr(encIn[k].v \o " " \o law)

\* a call rewrote one citation and returned another as it was
C2_Witness ==
    /\ EncReturned
    /\ Rewritten # {}
    /\ \E k \in 1..Len(encIn) : k \notin Rewritten
    /\ encOut.count = Cardinality(Rewritten)

----------------------------------------------------------------------------
(* Properties of normalize_citation (SpecText) *)

\* C3: idempotence of normalization. Applying normalize_citation to the text
\* it returned gives that text again and reports changed = false.
C3_Idempotence ==
    applied >= 2 => (text = prevText /\ ~normOut.changed)

----------------------------------------------------------------------------
(* Properties of process_csv (Spec) *)

\* the rows written after the citation loop and the enrichment (line 367)
ProcessedRows == {i \in 1..Len(written) : written[i].analysis.fmt = "dumps"}

\* the citations of the output 'articles de loi' lists
OutputCitations ==
    UNION {{written[i].analysis.articles.items[k] :
                k \in 1..Len(written[i].analysis.articles.items)} :
           i \in ProcessedRows}

\* C4: no garbage in the main output. No citation written to an output
\* 'articles de loi' list is given a GARBAGE_* label by categorize_citation.
C4_NoGarbageInOutput ==
    \A c \in OutputCitations : ~IsGarbageLabel(categorize_citation(c))

\* the analysis field is absent, is not JSON, is a JSON value other than an
\* object, or has no non-empty list under 'articles de loi'
Malformed(analysis) ==
    \/ analysis.kind \in {"nokey", "None", "invalid", "null", "number", "string", "list"}
    \/ analysis.kind = "object" /\ ~(analysis.articles.kind = "list"
                                     /\ analysis.articles.items # <<>>)

\* C5: malformed records are never fatal. Every malformed row that was read
\* has been written with its analysis field unchanged, and reading it did
\* not end the run.
C5_MalformedNeverFatal ==
    \A i \in 1..Len(consumed) :
        Malformed(consumed[i].analysis) =>
            /\ i <= Len(written)
            /\ written[i] = Written(consumed[i], consumed[i].analysis)
            /\ (i = Len(consumed) => pc = "running")

\* the citation values of the rows read so far
ConsumedCitations ==
    UNION {{consumed[i].analysis.articles.items[k] :
                k \in 1..Len(consumed[i].analysis.articles.items)} :
           i \in 1..Len(consumed)}

\* C6: totality of rule application. No citation value makes
\* categorize_citation, extract_law_from_citations or
\* enrich_article_only_citations raise, and process_csv does not abort on a
\* row that holds a list of citation values.
C6_Totality ==
    /\ \A c \in ConsumedCitations :
           /\ categorize_citation(c) # "RAISE"
           /\ ~extract_law_from_citations(<<c>>).raised
           /\ ~enrich_article_only_citations(<<c>>).raised
    /\ \A i \in 1..Len(consumed) :
           (HasArticles(consumed[i]) /\ consumed[i].analysis.articles.kind = "list")
               => (i = Len(consumed) => pc = "running")

\* the written row is the input row without part_content, its analysis the
\* same JSON value but for what 'articles de loi' holds
SameButArticles(in, out) ==
    /\ DOMAIN out = DOMAIN in \ {"part_content"}
    /\ out.uuid = in.uuid
    /\ out.analysis.kind = in.analysis.kind
    /\ out.analysis.holds = in.analysis.holds
    /\ out.analysis.jurisprudence = in.analysis.jurisprudence
    /\ out.analysis.doctrine = in.analysis.doctrine
    /\ out.analysis.articles.kind = in.analysis.articles.kind

\* C7: row-for-row output. While the run has not aborted, as many rows have
\* been written as read, in input order, and a written row differs from its
\* input row only in the 'articles de loi' value and the dropped part_content.
C7_RowForRow ==
    pc = "running" =>
        /\ Len(written) = Len(consumed)
        /\ \A i \in 1..Len(consumed) : SameButArticles(consumed[i], written[i])

\* two rows were read: one passed through, one rewritten, both alongside a
\* jurisprudence or doctrine value
C7_Witness ==
    /\ pc = "running"
    /\ Len(consumed) = 2
    /\ \E i, j \in 1..2 :
           /\ written[i].analysis = consumed[i].analysis
           /\ consumed[i].analysis.doctrine # Absent
           /\ written[j].analysis.articles # consumed[j].analysis.articles
           /\ consumed[j].analysis.jurisprudence # Absent

\* C8: transformation log completeness. The log holds one line per kept
\* citation changed by normalization and one per enriched citation: its line
\* count is citations_changed + citations_enriched.
C8_LogComplete ==
    Len(transformations) = stats.citations_changed + stats.citations_enriched

\* the state of process_csv before the first row
FreshState ==
    [stats |-> InitStats, transformations |-> <<>>, failures |-> <<>>,
     removed_examples |-> <<>>, garbage_examples |-> <<>>,
     enriched_examples |-> <<>>, normalized_articles |-> <<>>, raised |-> FALSE]

\* the 'articles de loi' list written for the row in a run that starts with it
AloneOutput(row) == EnrichRow(NormalizeRow(FreshState, row), row).enriched

\* C9: record independence. The list written for a row is the list written
\* for it in a run with no preceding rows, whatever rows preceded it here; so
\* two rows with the same 'articles de loi' list get the same output list.
C9_RecordIndependence ==
    /\ \A i \in ProcessedRows :
           written[i].analysis.articles.items = AloneOutput(consumed[i])
    /\ \A i, j \in ProcessedRows :
           consumed[i].analysis.articles = consumed[j].analysis.articles =>
               written[i].analysis.articles = written[j].analysis.articles

\* a row was enriched after a row with other law references
C9_Witness ==
    /\ Len(written) = 2
    /\ ProcessedRows = {1, 2}
    /\ unique_laws(consumed[1].analysis.articles.items) = {"STGB", "ZGB"}
    /\ unique_laws(consumed[2].analysis.articles.items) = {"RS 131.211"}
    /\ written[2].analysis.articles.items =
           <<PyStr("art. 128 RS 131.211"), PyStr("Loi cantonale, RS 131.211")>>

----------------------------------------------------------------------------
(* Properties of the classifiers and of the extractor (SpecClassify) *)

Categorized == "categorize_citation" \in called
GarbageTested == "is_garbage_citation" \in called
Extracted == "extract_law_from_citations" \in called

\* the whole text is a digit run, optional whitespace, then "f" or "ff" with
\* an optional trailing period
PageRefText(s) ==
    \E d \in 1..Len(s) : \E w \in d..Len(s) :
        /\ \A i \in 1..d : SubSeq(s, i, i) \in Digit
        /\ \A i \in (d + 1)..w : SubSeq(s, i, i) \in Space
        /\ SubSeq(s, w + 1, Len(s)) \in {"f", "ff", "f.", "ff."}

\* C11: page-reference rule. A citation is classified as a page reference
\* (GARBAGE_PAGE_REF by categorize_citation, 'page_reference' by
\* is_garbage_citation) exactly when its whole text is a digit run, optional
\* whitespace, then 'f' or 'ff' with an optional period (no earlier rule can
\* match such a text); a citation with other text before the digits is not
\* classified as a page reference.
C11_PageReference ==
    /\ Categorized => (category = "GARBAGE_PAGE_REF" <=> PageRefText(cit))
    /\ GarbageTested => (garbage.reason = "page_reference" <=> PageRefText(cit))

----------------------------------------------------------------------------
(* Further properties of enrich_article_only_citations (SpecEnrich) *)

\* every law identifier present in a citation text: each known abbreviation
\* found as a whole word, and the registry number
Identifiers(s) ==
    {upper(swiss_law_abbrevs[k]) :
        k \in {j \in 1..Len(swiss_law_abbrevs) : HasWord(lower(s), swiss_law_abbrevs[j])}}
    \cup ({RsReference(lower(s))} \ {NoLaw})

\* every law identifier present anywhere in the record
RecordIdentifiers(citations) ==
    UNION {Identifiers(citations[k].v) : k \in 1..Len(citations)}

\* C12: single-candidate rule over everything present in the record. When
\* the citations of a record together contain two different law identifiers
\* (whole-word known abbreviations or registry numbers), also two inside one
\* citation string, no citation of the record is rewritten.
C12_SingleCandidate ==
    EncReturned =>
        (Cardinality(RecordIdentifiers(encIn)) >= 2 =>
            encOut.citations = encIn /\ encOut.count = 0)

----------------------------------------------------------------------------
(* Further properties of the classifiers and of the extractor (SpecClassify) *)

\* C13: classifier priority order. The non-domestic-law test precedes the
\* article-only test: a citation that matches no garbage rule and contains a
\* non-domestic keyword is labelled non-domestic law, also when it starts with
\* an article marker and is shorter than the short-citation threshold.
C13_PriorityOrder ==
    (/\ Categorized
     /\ ~IsGarbageLabel(category)
     /\ ContainsAny(lower(cit), non_swiss_words)) => category = "NON_SWISS_LAW"

\* the text holds a month name, in any case
HasMonth(s) == ContainsAny(lower(s), month_patterns)

\* C14: date rule. A citation is classified as a date (GARBAGE_DATE by
\* categorize_citation, 'date_reference' by is_garbage_citation) only if it
\* contains a month name and no article marker followed by a digit: a
\* citation with 'Art'/'art', with or without period, followed by a digit is
\* never classified as a date by either function.
C14_DateRule ==
    /\ (Categorized /\ category = "GARBAGE_DATE") =>
           (HasMonth(cit) /\ ~HasArticle(cit))
    /\ (GarbageTested /\ garbage.reason = "date_reference") =>
           (HasMonth(cit) /\ ~HasArticle(cit))

\* the dotted digit sequence that follows a whole-word 'rs'/'sr' token at
\* index i of a lower-cased text, after optional punctuation or whitespace
\* (possibly none); "" when there is none
RegistryAt(s, i) ==
    LET w == RunEnd(s, i + 2, Space \cup {".", ",", ":"})
        e == DottedEnd(s, w)
    IN  IF /\ WordBoundary(s, i)
           /\ SubSeq(s, i, i + 1) \in {"rs", "sr"}
           /\ e > 0
        THEN SubSeq(s, w, e - 1)
        ELSE ""

\* the registry numbers a text names
RegistryNumbers(s) ==
    {RegistryAt(lower(s), i) : i \in 1..(Len(s) - 1)} \ {""}

\* the known abbreviations a text holds as whole words, upper-cased
KnownAbbreviations(s) ==
    {upper(extract_abbrevs[k]) :
        k \in {j \in 1..Len(extract_abbrevs) : HasWord(lower(s), extract_abbrevs[j])}}

\* C15: law-reference extraction order and form. For a citation with a
\* whole-word 'rs' or 'sr' token (any case) followed by optional punctuation
\* or whitespace, possibly none, and a dotted digit sequence, the extracted
\* reference is "RS <digits>" whatever abbreviation is also present; failing
\* that, a whole-word known abbreviation gives that abbreviation upper-cased;
\* failing both, there is no law reference.
C15_ExtractionOrder ==
    Extracted =>
        /\ ~lawRef.raised
        /\ IF RegistryNumbers(cit) # {}
           THEN lawRef.law \in {"RS " \o n : n \in RegistryNumbers(cit)}
           ELSE IF KnownAbbreviations(cit) # {}
           THEN lawRef.law \in KnownAbbreviations(cit)
           ELSE lawRef.law = NoLaw

----------------------------------------------------------------------------
(* Properties relating the enricher to the extractor and to the classifier  *)
(* (SpecEnrich)                                                            *)

\* the single-citation extractor applied to each citation of the record,
\* deduplicated
ExtractedLaws(citations) ==
    {extract_law_from_citations(<<citations[k]>>).law : k \in 1..Len(citations)}
        \ {NoLaw}

\* C16: extractor/enricher agreement. The set of law references the enricher
\* collects over a record equals the deduplicated set obtained by applying
\* extract_law_from_citations to each citation alone.
C16_ExtractorAgreement ==
    EncReturned => unique_laws(encIn) = ExtractedLaws(encIn)

\* C17: the enricher's article-only predicate is stricter than the
\* classifier's. Every citation a call rewrites is one categorize_citation
\* labels RESCUABLE_ARTICLE_ONLY.
C17_StricterPredicate ==
    EncReturned =>
        \A k \in Rewritten :
            categorize_citation(encIn[k]) = "RESCUABLE_ARTICLE_ONLY"

\* C19: idempotence of enrichment. Applying enrich_article_only_citations to
\* the list it returned gives that list again with enrichment count 0: an
\* enriched citation never gets a second law reference.
C19_EnrichIdempotent ==
    (encApplied >= 2 /\ ~encOut.raised) =>
        (encOut.citations = encIn /\ encOut.count = 0)

\* the second call received a list with an enriched citation and returned it
C19_Witness ==
    /\ encApplied = 2
    /\ encIn = <<PyStr("art. 5 ZGB"), PyStr("ZGB Art. 2"), PyStr("art.5 ZGB")>>
    /\ encOut.citations = encIn
    /\ encOut.count = 0

----------------------------------------------------------------------------
(* Counters of process_csv (Spec) *)

RECURSIVE WrittenCitations(_)
\* the number of citations in the 'articles de loi' lists of the first i
\* written rows that were processed
WrittenCitations(i) ==
    IF i = 0 THEN 0
    ELSE WrittenCitations(i - 1) +
         (IF i \in ProcessedRows THEN Len(written[i].analysis.articles.items) ELSE 0)

\* the counters add up
Conservation ==
    /\ stats.citations_processed =
           stats.citations_kept + stats.citations_removed_digit_only
               + stats.citations_removed_garbage
    /\ stats.citations_changed <= stats.citations_kept
    /\ stats.citations_enriched <= stats.citations_kept
    /\ pc = "running" => WrittenCitations(Len(written)) = stats.citations_kept

\* no counter goes down in a step
NonDecreasing == \A key \in DOMAIN stats : stats'[key] >= stats[key]

\* C18: counter conservation. After any sequence of finished rows,
\* citations_processed = citations_kept + citations_removed_digit_only +
\* citations_removed_garbage, citations_changed and citations_enriched are at
\* most citations_kept, the citations written to the output lists of
\* processed rows number citations_kept, and no counter ever decreases.
C18_CounterConservation == []Conservation /\ [][NonDecreasing]_vars

\* two rows were finished, with citations changed, enriched, removed as
\* digit-only and removed as garbage
C18_Witness ==
    /\ pc = "running"
    /\ Len(written) = 2
    /\ stats.citations_changed > 0
    /\ stats.citations_enriched > 0
    /\ stats.citations_removed_digit_only > 0
    /\ stats.citations_removed_garbage > 0
    /\ stats.citations_kept > stats.citations_enriched

====
